---- MODULE Spec2Model ----
(***************************************************************************)
(* deploy.py: deploy_stack(stack_name, template_file) reads a template     *)
(* file, sends one create_stack request to CloudFormation, blocks in the   *)
(* 'stack_create_complete' waiter and prints a success line.               *)
(*                                                                         *)
(* The model is the control flow of deploy_stack, statement by statement,  *)
(* run against an environment: a local file system and the remote service  *)
(* (its namespace of stacks, each with a status that the service advances  *)
(* on its own).  An exception is a transition to pc = "raised": the source *)
(* has no try/except, so every exception leaves deploy_stack.              *)
(***************************************************************************)
EXTENDS Naturals, Sequences, FiniteSets

VARIABLES
    fs,             \* local file system: path -> [kind, bytes]
    stacks,         \* remote service: stack name -> status ("ABSENT" = no such stack)
    run,            \* number of invocations of deploy_stack started so far
    pc,             \* position of the current invocation in deploy_stack
    stack_name,     \* argument stack_name
    template_file,  \* argument template_file
    template_body,  \* local template_body (NoValue while unbound)
    fileOpen,       \* whether the handle `file` of the with block is open
    exc,            \* the exception in flight or raised ("none" if none)
    failedAt,       \* the statement that raised it
    attempts,       \* the waiter's count of status queries in this wait
    log,            \* every remote call made, in order, tagged with its run and
                    \* with the arguments deploy_stack was called with in that run
    console,        \* every line printed, in order, tagged likewise
    opens,          \* times the current invocation opened/read the template file
    waits,          \* times the current invocation entered waiter.wait
    namesAtStart,   \* stack names present remotely when the invocation started
    clientConfig    \* whether the process of this invocation has a region configured

vars == <<fs, stacks, run, pc, stack_name, template_file, template_body, fileOpen,
          exc, failedAt, attempts, log, console, opens, waits, namesAtStart, clientConfig>>

----------------------------------------------------------------------------
(* Bounds of the model *)

\* invocations of deploy_stack in one behaviour
MaxInvocations == 2
\* status queries the waiter makes before it gives up (botocore: 120)
MaxAttempts == 2

----------------------------------------------------------------------------
(* Inputs *)

Names == {"my-iac-stack", "other-stack"}

MainPath == "cloudformation/main.yaml"
OtherPath == "cloudformation/other.yaml"
Paths == {MainPath, OtherPath, "missing.yaml", "denied.yaml", "binary.bin"}

\* The process environment of an invocation: boto3 finds a region, or none
ClientConfigs == {"ok", "no_region"}

\* A file's content is a sequence of tokens: "R" a resource declaration, "I" an
\* IAM resource, "N" a named IAM resource, "CR" and "LF" the line-ending bytes.
FileContents ==
    { <<"R", "CR", "LF", "I">>, <<"N", "CR">>, <<"LF">> }

NoValue == <<"<unbound>">>

Range(s) == {s[i] : i \in 1..Len(s)}

----------------------------------------------------------------------------
(* Local file system: open(template_file, 'r') and file.read() *)

\* open() raises for a missing or a protected file
OpenError(path) ==
    IF fs[path].kind = "missing" THEN "FileNotFoundError"
    ELSE IF fs[path].kind = "denied" THEN "PermissionError"
    ELSE "none"

\* read() of a text-mode handle raises when the bytes do not decode
ReadError(path) ==
    IF fs[path].kind = "undecodable" THEN "UnicodeDecodeError" ELSE "none"

\* Mode 'r' is text mode with universal newlines: "\r\n" and a lone "\r" are
\* returned as "\n"; every other character is returned as it is.
RECURSIVE TextRead(_)
TextRead(b) ==
    IF b = <<>> THEN <<>>
    ELSE IF Head(b) = "CR"
         THEN IF Len(b) >= 2 /\ b[2] = "LF"
              THEN <<"LF">> \o TextRead(SubSeq(b, 3, Len(b)))
              ELSE <<"LF">> \o TextRead(Tail(b))
         ELSE <<Head(b)>> \o TextRead(Tail(b))

LocalIOErrors == {"FileNotFoundError", "PermissionError", "UnicodeDecodeError"}

----------------------------------------------------------------------------
(* Remote service *)

TerminalSuccess == "CREATE_COMPLETE"
WaiterFailureStatuses == {"ROLLBACK_COMPLETE", "CREATE_FAILED", "ROLLBACK_FAILED",
                          "DELETE_COMPLETE", "DELETE_FAILED"}

PresentNames == {n \in Names : stacks[n] # "ABSENT"}

WellFormed(body) == Range(body) \cap {"R", "I", "N"} # {}

RequiredCapabilities(body) ==
    IF "N" \in Range(body) THEN {"CAPABILITY_NAMED_IAM"}
    ELSE IF "I" \in Range(body) THEN {"CAPABILITY_IAM"}
    ELSE {}

\* The service's answer to a creation request
CreateStackResponse(name, body, caps) ==
    IF ~WellFormed(body) THEN "ValidationError"
    ELSE IF ~(RequiredCapabilities(body) \subseteq Range(caps))
         THEN "InsufficientCapabilitiesException"
    ELSE IF stacks[name] # "ABSENT" THEN "AlreadyExistsException"
    ELSE "accepted"

\* The service's answer to a status query
DescribeStacksResponse(name) ==
    IF stacks[name] = "ABSENT" THEN "ValidationError" ELSE stacks[name]

\* The service works on a stack on its own, whatever the deployer does
SvcProgress ==
    /\ \E n \in Names :
         \/ /\ stacks[n] = "CREATE_IN_PROGRESS"
            /\ stacks' = [stacks EXCEPT ![n] = "CREATE_COMPLETE"]
         \/ /\ stacks[n] = "CREATE_IN_PROGRESS"
            /\ stacks' = [stacks EXCEPT ![n] = "ROLLBACK_IN_PROGRESS"]
         \/ /\ stacks[n] = "ROLLBACK_IN_PROGRESS"
            /\ stacks' = [stacks EXCEPT ![n] = "ROLLBACK_COMPLETE"]
    /\ UNCHANGED <<fs, run, pc, stack_name, template_file, template_body, fileOpen,
                   exc, failedAt, attempts, log, console, opens, waits, namesAtStart, clientConfig>>

----------------------------------------------------------------------------
(* Records of what the deployer did *)

\* the arguments of the invocation under way
ThisCall == [name |-> stack_name, path |-> template_file]

CreateCall(r, name, body, caps, result) ==
    [run |-> r, call |-> ThisCall, op |-> "create_stack", StackName |-> name,
     TemplateBody |-> body, Capabilities |-> caps, result |-> result]

DescribeCall(r, name, result) ==
    [run |-> r, call |-> ThisCall, op |-> "describe_stacks", StackName |-> name,
     TemplateBody |-> <<>>, Capabilities |-> <<>>, result |-> result]

CallsOf(r, op) == {i \in 1..Len(log) : log[i].run = r /\ log[i].op = op}
Creates(r) == Cardinality(CallsOf(r, "create_stack"))
Queries(r) == Cardinality(CallsOf(r, "describe_stacks"))
CallsIn(r) == CallsOf(r, "create_stack") \cup CallsOf(r, "describe_stacks")

\* print(f"Stack {stack_name} created successfully.")
SuccessLine(name) == "Stack " \o name \o " created successfully."

Printed(r) == \E i \in 1..Len(console) : console[i].run = r

Ended == pc \in {"returned", "raised"}

----------------------------------------------------------------------------
(* Initial state *)

Init ==
    /\ \E c \in FileContents :
         fs = [p \in Paths |->
                 IF p = MainPath THEN [kind |-> "text", bytes |-> c]
                 ELSE IF p = OtherPath THEN [kind |-> "text", bytes |-> <<"R", "LF">>]
                 ELSE IF p = "missing.yaml" THEN [kind |-> "missing", bytes |-> <<>>]
                 ELSE IF p = "denied.yaml" THEN [kind |-> "denied", bytes |-> <<"R">>]
                 ELSE [kind |-> "undecodable", bytes |-> <<"R">>]]
    /\ \E st \in {"ABSENT", "CREATE_COMPLETE"} :
         stacks = [n \in Names |-> IF n = "other-stack" THEN st ELSE "ABSENT"]
    /\ run = 0
    /\ pc = "idle"
    /\ stack_name = "my-iac-stack"
    /\ template_file = MainPath
    /\ template_body = NoValue
    /\ fileOpen = FALSE
    /\ exc = "none"
    /\ failedAt = "none"
    /\ attempts = 0
    /\ log = <<>>
    /\ console = <<>>
    /\ opens = 0
    /\ waits = 0
    /\ namesAtStart = {}
    /\ clientConfig = "ok"

----------------------------------------------------------------------------
(* deploy_stack, statement by statement *)

\* deploy_stack(name, path) is called (by __main__, or by a later run)
Invoke(name, path, config) ==
    /\ pc \in {"idle", "returned", "raised"}
    /\ run < MaxInvocations
    /\ run' = run + 1
    /\ pc' = "open"
    /\ stack_name' = name
    /\ template_file' = path
    /\ template_body' = NoValue
    /\ fileOpen' = FALSE
    /\ exc' = "none"
    /\ failedAt' = "none"
    /\ attempts' = 0
    /\ opens' = 0
    /\ waits' = 0
    /\ namesAtStart' = PresentNames
    /\ clientConfig' = config
    /\ UNCHANGED <<fs, stacks, log, console>>

\* Open, were a failing open() caught and an empty template used instead
OpenSwallowsError ==
    /\ pc = "open"
    /\ opens' = opens + 1
    /\ IF OpenError(template_file) # "none"
       THEN /\ pc' = "client"
            /\ template_body' = <<>>
            /\ fileOpen' = FALSE
       ELSE /\ pc' = "read"
            /\ fileOpen' = TRUE
            /\ UNCHANGED template_body
    /\ UNCHANGED <<fs, stacks, run, stack_name, template_file, exc, failedAt,
                   attempts, log, console, waits, namesAtStart, clientConfig>>

\* with open(template_file, 'r') as file:
Open ==
    /\ pc = "open"
    /\ opens' = opens + 1
    /\ IF OpenError(template_file) # "none"
       THEN /\ pc' = "raised"
            /\ exc' = OpenError(template_file)
            /\ failedAt' = "open"
            /\ fileOpen' = FALSE
       ELSE /\ pc' = "read"
            /\ fileOpen' = TRUE
            /\ UNCHANGED <<exc, failedAt>>
    /\ UNCHANGED <<fs, stacks, run, stack_name, template_file, template_body,
                   attempts, log, console, waits, namesAtStart, clientConfig>>

\* Read, were it file.readline(): the text up to and including the first "\n"
RECURSIVE FirstLine(_)
FirstLine(t) ==
    IF t = <<>> THEN <<>>
    ELSE IF Head(t) = "LF" THEN <<"LF">>
    ELSE <<Head(t)>> \o FirstLine(Tail(t))

ReadFirstLine ==
    /\ pc = "read"
    /\ pc' = "exit_with"
    /\ IF ReadError(template_file) # "none"
       THEN /\ exc' = ReadError(template_file)
            /\ failedAt' = "read"
            /\ UNCHANGED template_body
       ELSE /\ template_body' = FirstLine(TextRead(fs[template_file].bytes))
            /\ UNCHANGED <<exc, failedAt>>
    /\ UNCHANGED <<fs, stacks, run, stack_name, template_file, fileOpen,
                   attempts, log, console, opens, waits, namesAtStart, clientConfig>>

\* template_body = file.read()
Read ==
    /\ pc = "read"
    /\ pc' = "exit_with"
    /\ IF ReadError(template_file) # "none"
       THEN /\ exc' = ReadError(template_file)
            /\ failedAt' = "read"
            /\ UNCHANGED template_body
       ELSE /\ template_body' = TextRead(fs[template_file].bytes)
            /\ UNCHANGED <<exc, failedAt>>
    /\ UNCHANGED <<fs, stacks, run, stack_name, template_file, fileOpen,
                   attempts, log, console, opens, waits, namesAtStart, clientConfig>>

\* ExitWith, were the handle closed only on the normal path (no with block)
ExitWithLeaksOnError ==
    /\ pc = "exit_with"
    /\ fileOpen' = IF exc # "none" THEN fileOpen ELSE FALSE
    /\ pc' = IF exc # "none" THEN "raised" ELSE "client"
    /\ UNCHANGED <<fs, stacks, run, stack_name, template_file, template_body,
                   exc, failedAt, attempts, log, console, opens, waits, namesAtStart,
                   clientConfig>>

\* leaving the with block: file.__exit__ closes the handle, whether or not an
\* exception is in flight, and an exception in flight goes on
ExitWith ==
    /\ pc = "exit_with"
    /\ fileOpen' = FALSE
    /\ pc' = IF exc # "none" THEN "raised" ELSE "client"
    /\ UNCHANGED <<fs, stacks, run, stack_name, template_file, template_body,
                   exc, failedAt, attempts, log, console, opens, waits, namesAtStart, clientConfig>>

\* client = boto3.client('cloudformation'): raises NoRegionError, before any
\* request, when the process has no region configured
MakeClient ==
    /\ pc = "client"
    /\ IF clientConfig = "no_region"
       THEN /\ pc' = "raised"
            /\ exc' = "NoRegionError"
            /\ failedAt' = "client"
       ELSE /\ pc' = "create_stack"
            /\ UNCHANGED <<exc, failedAt>>
    /\ UNCHANGED <<fs, stacks, run, stack_name, template_file, template_body, fileOpen,
                   attempts, log, console, opens, waits, namesAtStart, clientConfig>>

\* CreateStack, were a rejection caught and ignored
CreateStackIgnoresRejection ==
    /\ pc = "create_stack"
    /\ LET caps == <<"CAPABILITY_IAM">>
           res == CreateStackResponse(stack_name, template_body, caps)
       IN /\ log' = Append(log, CreateCall(run, stack_name, template_body, caps, res))
          /\ stacks' = IF res = "accepted"
                       THEN [stacks EXCEPT ![stack_name] = "CREATE_IN_PROGRESS"]
                       ELSE stacks
          /\ pc' = "get_waiter"
    /\ UNCHANGED <<fs, run, stack_name, template_file, template_body, fileOpen, exc,
                   failedAt, attempts, console, opens, waits, namesAtStart, clientConfig>>

\* CreateStack, were a rejected request sent once more before giving up
CreateStackRetries ==
    /\ pc = "create_stack"
    /\ LET caps == <<"CAPABILITY_IAM">>
           res == CreateStackResponse(stack_name, template_body, caps)
       IN /\ log' = Append(log, CreateCall(run, stack_name, template_body, caps, res))
          /\ IF res = "accepted"
             THEN /\ stacks' = [stacks EXCEPT ![stack_name] = "CREATE_IN_PROGRESS"]
                  /\ pc' = "get_waiter"
                  /\ UNCHANGED <<exc, failedAt>>
             ELSE IF Creates(run) = 0
             THEN /\ pc' = "create_stack"
                  /\ UNCHANGED <<stacks, exc, failedAt>>
             ELSE /\ pc' = "raised"
                  /\ exc' = res
                  /\ failedAt' = "create_stack"
                  /\ UNCHANGED stacks
    /\ UNCHANGED <<fs, run, stack_name, template_file, template_body, fileOpen,
                   attempts, console, opens, waits, namesAtStart, clientConfig>>

\* CreateStack, were the name first checked against the names this deployer has
\* already had accepted, and a request for such a name not sent
CreateStackChecksLocally ==
    /\ pc = "create_stack"
    /\ LET caps == <<"CAPABILITY_IAM">>
           res == CreateStackResponse(stack_name, template_body, caps)
           known == \E i \in 1..Len(log) : /\ log[i].op = "create_stack"
                                           /\ log[i].StackName = stack_name
                                           /\ log[i].result = "accepted"
       IN IF known
          THEN /\ pc' = "raised"
               /\ exc' = "AlreadyExistsException"
               /\ failedAt' = "create_stack"
               /\ UNCHANGED <<stacks, log>>
          ELSE /\ log' = Append(log, CreateCall(run, stack_name, template_body, caps, res))
               /\ IF res = "accepted"
                  THEN /\ stacks' = [stacks EXCEPT ![stack_name] = "CREATE_IN_PROGRESS"]
                       /\ pc' = "get_waiter"
                       /\ UNCHANGED <<exc, failedAt>>
                  ELSE /\ pc' = "raised"
                       /\ exc' = res
                       /\ failedAt' = "create_stack"
                       /\ UNCHANGED stacks
    /\ UNCHANGED <<fs, run, stack_name, template_file, template_body, fileOpen,
                   attempts, console, opens, waits, namesAtStart, clientConfig>>

\* response = client.create_stack(StackName=stack_name,
\*     TemplateBody=template_body, Capabilities=['CAPABILITY_IAM'])
CreateStack ==
    /\ pc = "create_stack"
    /\ LET caps == <<"CAPABILITY_IAM">>
           res == CreateStackResponse(stack_name, template_body, caps)
       IN /\ log' = Append(log, CreateCall(run, stack_name, template_body, caps, res))
          /\ IF res = "accepted"
             THEN /\ stacks' = [stacks EXCEPT ![stack_name] = "CREATE_IN_PROGRESS"]
                  /\ pc' = "get_waiter"
                  /\ UNCHANGED <<exc, failedAt>>
             ELSE /\ pc' = "raised"
                  /\ exc' = res
                  /\ failedAt' = "create_stack"
                  /\ UNCHANGED stacks
    /\ UNCHANGED <<fs, run, stack_name, template_file, template_body, fileOpen,
                   attempts, console, opens, waits, namesAtStart, clientConfig>>

\* GetWaiter, were the waiter obtained and wait() never called
GetWaiterSkipsWait ==
    /\ pc = "get_waiter"
    /\ pc' = "print"
    /\ UNCHANGED <<fs, stacks, run, stack_name, template_file, template_body, fileOpen,
                   exc, failedAt, attempts, log, console, opens, waits, namesAtStart,
                   clientConfig>>

\* waiter = client.get_waiter('stack_create_complete'); waiter.wait(...) is entered
GetWaiter ==
    /\ pc = "get_waiter"
    /\ pc' = "wait"
    /\ waits' = waits + 1
    /\ attempts' = 0
    /\ UNCHANGED <<fs, stacks, run, stack_name, template_file, template_body, fileOpen,
                   exc, failedAt, log, console, opens, namesAtStart, clientConfig>>

\* Poll, were running out of attempts taken for the end of the creation
PollTimeoutIsSuccess ==
    /\ pc = "wait"
    /\ attempts < MaxAttempts
    /\ LET res == DescribeStacksResponse(stack_name)
       IN /\ log' = Append(log, DescribeCall(run, stack_name, res))
          /\ attempts' = attempts + 1
          /\ IF res = TerminalSuccess
             THEN /\ pc' = "print"
                  /\ UNCHANGED <<exc, failedAt>>
             ELSE IF res \in WaiterFailureStatuses \cup {"ValidationError"}
             THEN /\ pc' = "raised"
                  /\ exc' = "WaiterError"
                  /\ failedAt' = "wait"
             ELSE IF attempts' >= MaxAttempts
             THEN /\ pc' = "print"
                  /\ UNCHANGED <<exc, failedAt>>
             ELSE /\ pc' = "wait"
                  /\ UNCHANGED <<exc, failedAt>>
    /\ UNCHANGED <<fs, stacks, run, stack_name, template_file, template_body, fileOpen,
                   console, opens, waits, namesAtStart, clientConfig>>

\* Poll, were WaiterError caught and deploy_stack left by a plain return
PollSwallowsError ==
    /\ pc = "wait"
    /\ attempts < MaxAttempts
    /\ LET res == DescribeStacksResponse(stack_name)
       IN /\ log' = Append(log, DescribeCall(run, stack_name, res))
          /\ attempts' = attempts + 1
          /\ IF res = TerminalSuccess
             THEN /\ pc' = "print"
                  /\ UNCHANGED <<exc, failedAt>>
             ELSE IF res \in WaiterFailureStatuses \cup {"ValidationError"}
             THEN /\ pc' = "returned"
                  /\ UNCHANGED <<exc, failedAt>>
             ELSE IF attempts' >= MaxAttempts
             THEN /\ pc' = "returned"
                  /\ UNCHANGED <<exc, failedAt>>
             ELSE /\ pc' = "wait"
                  /\ UNCHANGED <<exc, failedAt>>
    /\ UNCHANGED <<fs, stacks, run, stack_name, template_file, template_body, fileOpen,
                   console, opens, waits, namesAtStart, clientConfig>>

\* Poll, were the last attempt not the end of the wait: no WaiterError for
\* running out of attempts, the call just never returns
PollForever ==
    /\ pc = "wait"
    /\ attempts < MaxAttempts
    /\ LET res == DescribeStacksResponse(stack_name)
       IN /\ log' = Append(log, DescribeCall(run, stack_name, res))
          /\ attempts' = attempts + 1
          /\ IF res = TerminalSuccess
             THEN /\ pc' = "print"
                  /\ UNCHANGED <<exc, failedAt>>
             ELSE IF res \in WaiterFailureStatuses \cup {"ValidationError"}
             THEN /\ pc' = "raised"
                  /\ exc' = "WaiterError"
                  /\ failedAt' = "wait"
             ELSE /\ pc' = "wait"
                  /\ UNCHANGED <<exc, failedAt>>
    /\ UNCHANGED <<fs, stacks, run, stack_name, template_file, template_body, fileOpen,
                   console, opens, waits, namesAtStart, clientConfig>>

\* waiter.wait(StackName=stack_name): one turn of the waiter's loop.  It queries
\* the status; CREATE_COMPLETE ends the wait, a failure status or an error
\* answer raises WaiterError, and so does any other status on the last attempt.
Poll ==
    /\ pc = "wait"
    /\ attempts < MaxAttempts
    /\ LET res == DescribeStacksResponse(stack_name)
       IN /\ log' = Append(log, DescribeCall(run, stack_name, res))
          /\ attempts' = attempts + 1
          /\ IF res = TerminalSuccess
             THEN /\ pc' = "print"
                  /\ UNCHANGED <<exc, failedAt>>
             ELSE IF res \in WaiterFailureStatuses \cup {"ValidationError"}
                     \/ attempts + 1 >= MaxAttempts
             THEN /\ pc' = "raised"
                  /\ exc' = "WaiterError"
                  /\ failedAt' = "wait"
             ELSE /\ pc' = "wait"
                  /\ UNCHANGED <<exc, failedAt>>
    /\ UNCHANGED <<fs, stacks, run, stack_name, template_file, template_body, fileOpen,
                   console, opens, waits, namesAtStart, clientConfig>>

\* print(f"Stack {stack_name} created successfully.") and the return after it
PrintSuccess ==
    /\ pc = "print"
    /\ console' = Append(console, [run |-> run, call |-> ThisCall,
                                   line |-> SuccessLine(stack_name)])
    /\ pc' = "returned"
    /\ UNCHANGED <<fs, stacks, run, stack_name, template_file, template_body, fileOpen,
                   exc, failedAt, attempts, log, opens, waits, namesAtStart, clientConfig>>

\* the steps of one invocation
Step ==
    \/ Open
    \/ Read
    \/ ExitWith
    \/ MakeClient
    \/ CreateStack
    \/ GetWaiter
    \/ Poll
    \/ PrintSuccess

Next ==
    \/ \E name \in Names, path \in Paths, config \in ClientConfigs :
           Invoke(name, path, config)
    \/ Step
    \/ SvcProgress

Spec == Init /\ [][Next]_vars

\* deploy_stack is synchronous and single-threaded: a statement that can run does
FairSpec == Spec /\ WF_vars(Step)

----------------------------------------------------------------------------
(* What a run did, read off the records *)

Accepted(r) == \E i \in CallsOf(r, "create_stack") : log[i].result = "accepted"

LastIndex(S) == CHOOSE i \in S : \A j \in S : j <= i

\* the last remote call of run r (r has made one)
LastCallOf(r) == log[LastIndex(CallsIn(r))]

\* the waiter of run r has seen the success terminal status, and nothing after it
SuccessObserved(r) ==
    /\ CallsIn(r) # {}
    /\ LastCallOf(r).op = "describe_stacks"
    /\ LastCallOf(r).result = TerminalSuccess

ReadableTemplate == fs[template_file].kind = "text"

FreshName == stack_name \notin namesAtStart

\* an earlier run with this stack name had its creation request accepted
AcceptedBefore ==
    \E i \in 1..Len(log) :
        /\ log[i].run < run
        /\ log[i].op = "create_stack"
        /\ log[i].call.name = stack_name
        /\ log[i].result = "accepted"

\* the run's inputs let it get as far as the creation request: its template file
\* can be read and its client can be made
ReachesCreate == ReadableTemplate /\ clientConfig = "ok"

\* the service has nothing against the run's template but, possibly, the name
TemplateAcceptable ==
    /\ ReadableTemplate
    /\ WellFormed(TextRead(fs[template_file].bytes))
    /\ RequiredCapabilities(TextRead(fs[template_file].bytes)) \subseteq {"CAPABILITY_IAM"}

----------------------------------------------------------------------------
(* C1 *)

\* Every success line on the console is the line for the stack name of the run
\* that printed it, and that run's last remote call is a status query answered
\* with the success terminal status: the line is never there before that answer.
SuccessLineOnlyAfterSuccess ==
    \A i \in 1..Len(console) :
        LET r == console[i].run
        IN /\ console[i].line = SuccessLine(console[i].call.name)
           /\ SuccessObserved(r)
           /\ LastCallOf(r).call = console[i].call
           /\ LastCallOf(r).StackName = console[i].call.name

\* C1 as stated: a run given a readable template file and a stack name not yet
\* present remotely ends having issued exactly one creation request and at
\* least one status query, and the success line is printed only after the wait
\* step has observed the success terminal status.
C1Original ==
    /\ (Ended /\ ReadableTemplate /\ FreshName) =>
           (Creates(run) = 1 /\ Queries(run) >= 1)
    /\ SuccessLineOnlyAfterSuccess

\* C1 amended: a run given a readable template file and a stack name not yet
\* present remotely, whose creation request the remote service accepts, ends
\* having issued exactly one creation request and at least one status query;
\* and the success line, carrying the given stack name, is printed only after
\* the wait step has observed the success terminal status.
C1Amended ==
    /\ (Ended /\ ReadableTemplate /\ FreshName /\ Accepted(run)) =>
           (Creates(run) = 1 /\ Queries(run) >= 1)
    /\ SuccessLineOnlyAfterSuccess

\* a run on a fresh name that saw the stack pending, then created, and printed
C1Witness ==
    /\ pc = "returned"
    /\ ReadableTemplate /\ FreshName
    /\ Creates(run) = 1 /\ Queries(run) = 2
    /\ stack_name = "my-iac-stack"
    /\ console[Len(console)].run = run
    /\ console[Len(console)].line = "Stack my-iac-stack created successfully."

----------------------------------------------------------------------------
(* C2 *)

\* C2: a run whose template path is missing or unreadable makes no remote call
\* at any point (no creation request, no status query), leaves the set of stack
\* names of the remote service as it found it, never gets past the read step,
\* and ends by raising a local I/O error from open() or read().
C2NoRemoteCallOnUnreadableTemplate ==
    (run >= 1 /\ ~ReadableTemplate) =>
        /\ CallsIn(run) = {}
        /\ PresentNames = namesAtStart
        /\ pc \in {"open", "read", "exit_with", "raised"}
        /\ ~Printed(run)
        /\ pc = "raised" => (exc \in LocalIOErrors /\ failedAt \in {"open", "read"})

\* a run on a missing path has ended
C2Witness ==
    /\ pc = "raised"
    /\ fs[template_file].kind = "missing"
    /\ exc = "FileNotFoundError"
    /\ opens = 1

----------------------------------------------------------------------------
(* C3 *)

\* C3: once the remote service has rejected the run's creation request, the run
\* has failed at the creation-request step with the service's error: the wait
\* step is never entered, no status query is issued, no success line printed.
C3RejectionFailsAtCreate ==
    \A i \in CallsOf(run, "create_stack") :
        log[i].result # "accepted" =>
            /\ pc = "raised"
            /\ failedAt = "create_stack"
            /\ exc = log[i].result
            /\ waits = 0
            /\ Queries(run) = 0
            /\ ~Printed(run)

\* a creation request for a name that already exists has been rejected
C3Witness ==
    /\ pc = "raised"
    /\ exc = "AlreadyExistsException"
    /\ stack_name \in namesAtStart
    /\ Creates(run) = 1

----------------------------------------------------------------------------
(* C4 *)

\* the waiter's last query was answered with a failure terminal status
WaitSawFailure(r) ==
    /\ CallsOf(r, "describe_stacks") # {}
    /\ LastCallOf(r).result \in WaiterFailureStatuses

\* the waiter has used all its attempts and the last answer was not success
WaitExhausted(r) ==
    /\ Cardinality(CallsOf(r, "describe_stacks")) >= MaxAttempts
    /\ LastCallOf(r).result # TerminalSuccess

\* C4: when the creation request was accepted and the waiter then sees a failure
\* terminal status, or uses up its attempts without seeing success, the run has
\* failed at the wait step (WaiterError) and no success line is printed.
C4WaitFailureRaises ==
    (Accepted(run) /\ (WaitSawFailure(run) \/ WaitExhausted(run))) =>
        /\ pc = "raised"
        /\ failedAt = "wait"
        /\ exc = "WaiterError"
        /\ ~Printed(run)

\* one run timed out on a stack still in progress, a later one saw a rollback
C4Witness ==
    /\ run = 2 /\ pc = "raised" /\ exc = "WaiterError"
    /\ Accepted(1) /\ WaitExhausted(1) /\ ~WaitSawFailure(1)
    /\ LastCallOf(1).result = "CREATE_IN_PROGRESS"
    /\ Accepted(2) /\ WaitSawFailure(2)

----------------------------------------------------------------------------
(* C5 *)

C5AtMostOnce ==
    /\ opens <= 1
    /\ waits <= 1
    /\ \A r \in 1..run : Creates(r) <= 1

\* C5: in every run the template file is opened and read at most once, at most
\* one creation request is issued, the wait step is entered at most once, and
\* from the first failure on the run makes no further remote call and no
\* further step.
C5NoRetry ==
    /\ []C5AtMostOnce
    /\ [][(pc = "raised" /\ run' = run) =>
              (log' = log /\ pc' = pc /\ opens' = opens /\ waits' = waits)]_vars

\* a run whose one creation request was rejected
C5Witness ==
    /\ pc = "raised"
    /\ failedAt = "create_stack"
    /\ exc = "ValidationError"
    /\ opens = 1 /\ Creates(run) = 1 /\ waits = 0

----------------------------------------------------------------------------
(* C6 *)

C6Outcome ==
    /\ Ended => (pc = "returned" <=> Printed(run))
    /\ pc = "raised" => (exc # "none" /\ failedAt # "none")
    /\ exc # "none" => (pc \in {"exit_with", "raised"} /\ ~Printed(run))
    /\ pc = "returned" =>
           /\ exc = "none"
           /\ Accepted(run)
           /\ SuccessObserved(run)
           /\ stacks[stack_name] = TerminalSuccess

\* C6: a run ends normally if and only if it printed the success line.  Every
\* failure ends it abnormally with the error that was raised, which nothing
\* catches or replaces, and with no success line; and a run that ends normally
\* had its request accepted and its stack in the success terminal state.
C6ReturnIffPrinted ==
    /\ []C6Outcome
    /\ [][(exc # "none" /\ run' = run) => (exc' = exc /\ pc' \in {pc, "raised"})]_vars

\* a run that was accepted and then failed in the wait step, with no line
C6Witness ==
    /\ pc = "raised" /\ failedAt = "wait"
    /\ stacks[stack_name] = "ROLLBACK_COMPLETE"
    /\ ~Printed(run)
    /\ Printed(1) /\ run = 2

----------------------------------------------------------------------------
(* C7 *)

\* C7 as stated: a run given a stack name for which an earlier run's creation
\* request was accepted fails at the creation-request step with a name
\* conflict, having sent its request (nothing local prevents it), enters no
\* wait and prints no success line.
C7Original ==
    (AcceptedBefore /\ Ended) =>
        /\ pc = "raised"
        /\ failedAt = "create_stack"
        /\ exc = "AlreadyExistsException"
        /\ Creates(run) = 1
        /\ waits = 0
        /\ Queries(run) = 0
        /\ ~Printed(run)

\* C7 amended: a run given a stack name for which an earlier run's creation
\* request was accepted never enters the wait step, never prints the success
\* line and never returns normally.  If its template file is readable and its
\* client can be made, nothing local stops its request: it sends exactly one
\* creation request, for that name, and fails at the creation-request step with
\* the service's rejection, which is the name conflict whenever the service has
\* nothing else against the template.  Otherwise it fails before that step, at
\* the file or at the client, and sends nothing.
C7Amended ==
    /\ AcceptedBefore =>
           /\ waits = 0
           /\ Queries(run) = 0
           /\ ~Printed(run)
           /\ pc \notin {"get_waiter", "wait", "print", "returned"}
           /\ ~Accepted(run)
    /\ (AcceptedBefore /\ Ended /\ ReachesCreate) =>
           /\ pc = "raised"
           /\ failedAt = "create_stack"
           /\ Creates(run) = 1
           /\ LastCallOf(run).StackName = stack_name
           /\ exc = LastCallOf(run).result
           /\ exc \in {"AlreadyExistsException", "ValidationError",
                       "InsufficientCapabilitiesException"}
           /\ TemplateAcceptable => exc = "AlreadyExistsException"
    /\ (AcceptedBefore /\ Ended /\ ~ReachesCreate) =>
           /\ pc = "raised"
           /\ failedAt \in {"open", "read", "client"}
           /\ CallsIn(run) = {}

\* the second of two invocations with one name and two different readable
\* templates has ended on the name conflict, after the first succeeded
C7Witness ==
    /\ run = 2 /\ pc = "raised"
    /\ Printed(1)
    /\ LastCallOf(1).call = [name |-> stack_name, path |-> OtherPath]
    /\ template_file = MainPath
    /\ Creates(2) = 1
    /\ exc = "AlreadyExistsException"

----------------------------------------------------------------------------
(* C8 *)

\* every remote call of a run names the stack the run was given, and a creation
\* request carries the one capability flag CAPABILITY_IAM
C8NameAndFlag ==
    \A i \in 1..Len(log) :
        /\ log[i].StackName = log[i].call.name
        /\ log[i].op = "create_stack" => log[i].Capabilities = <<"CAPABILITY_IAM">>

\* C8 as stated: the creation request carries the caller's stack name, the
\* template body equal to the full file contents unmodified, and the fixed
\* capability flag; the wait step queries that same stack name and no other.
C8Original ==
    /\ C8NameAndFlag
    /\ \A i \in 1..Len(log) :
           log[i].op = "create_stack" =>
               log[i].TemplateBody = fs[log[i].call.path].bytes

\* C8 amended: the creation request carries the caller's stack name, the fixed
\* capability flag, and as template body the full file contents as text mode
\* returns them: each "\r\n" and each lone "\r" of the file is a "\n" in the
\* body, and nothing else is changed.  The wait step queries that same stack
\* name and no other.
C8Amended ==
    /\ C8NameAndFlag
    /\ \A i \in 1..Len(log) :
           log[i].op = "create_stack" =>
               log[i].TemplateBody = TextRead(fs[log[i].call.path].bytes)

\* a request for a two-line file with a "\r\n" in it was sent and its stack polled
C8Witness ==
    /\ fs[MainPath].bytes = <<"R", "CR", "LF", "I">>
    /\ Len(log) >= 2
    /\ log[1].op = "create_stack"
    /\ log[1].TemplateBody = <<"R", "LF", "I">>
    /\ log[1].StackName = "other-stack"
    /\ log[2].op = "describe_stacks"
    /\ log[2].StackName = "other-stack"

----------------------------------------------------------------------------
(* C9 *)

\* C9: in no state after the read step (at the client and creation-request
\* steps, in the wait, at the print, or once the run has ended either way) is
\* the template file handle open, also when read() is what failed.
C9HandleReleased ==
    pc \in {"client", "create_stack", "get_waiter", "wait", "print", "returned",
            "raised"} => ~fileOpen

\* a run whose read() failed has ended, and the file was opened
C9Witness ==
    /\ pc = "raised"
    /\ failedAt = "read"
    /\ exc = "UnicodeDecodeError"
    /\ opens = 1
    /\ ~fileOpen

----------------------------------------------------------------------------
(* C10 *)

\* C10: with a waiter that makes at most MaxAttempts queries, every run that
\* has started reaches its end (returned or raised), wherever in the run it is:
\* a run in the wait step is a started run, so the wait cannot block forever;
\* and an ended run stays as it ended: it makes no remote call and prints
\* nothing more.
C10Terminates ==
    /\ \A r \in 1..MaxInvocations : (run = r) ~> (run = r /\ Ended)
    /\ [](pc = "wait" => run \in 1..MaxInvocations)
    /\ [](attempts <= MaxAttempts)
    /\ [][(Ended /\ run' = run) =>
              (pc' = pc /\ log' = log /\ console' = console)]_vars

\* a wait that used every attempt on a stack that never left CREATE_IN_PROGRESS
C10Witness ==
    /\ pc = "raised" /\ exc = "WaiterError"
    /\ attempts = MaxAttempts
    /\ stacks[stack_name] = "CREATE_IN_PROGRESS"
    /\ \A i \in CallsOf(run, "describe_stacks") : log[i].result = "CREATE_IN_PROGRESS"

====
